---- MODULE Spec2Model ----
(***************************************************************************)
(* State-machine model of the job-status poller of the Processing view     *)
(* (src/src/pages/Dashboard.tsx, component Processing) together with the   *)
(* navigation that mounts and tears down the view.                         *)
(*                                                                         *)
(* One invocation of pollStatus and the continuations it schedules form a  *)
(* "task": a fetch in flight, a backoff wait, or a 2-second timer.  The    *)
(* component never cancels a task (the cleanup functions pollStatus        *)
(* returns are dropped by its callers), so tasks outlive the instance that *)
(* started them.  React state lives from mount to unmount, and the state   *)
(* setters of an unmounted instance do nothing; navigate and localStorage  *)
(* keep working for a task whose instance is gone.                         *)
(*                                                                         *)
(* Spec is the poller with a submission taken as one step, SpecJobs the    *)
(* same for two job ids, SpecLive one submission under fair scheduling.    *)
(* SpecApp is the Dashboard view with its upload request (Dashboard.tsx,   *)
(* component Dashboard) and AuthProvider (AuthContext) with the stored     *)
(* session; there the status fetches of the poller stay in flight.         *)
(***************************************************************************)
EXTENDS Integers, Sequences, FiniteSets, Bags, TLC

\* ---- bounds of the model ------------------------------------------------
MaxFetches == 6
MaxLogs == 2
MaxStarts == 2

\* ---- program constants --------------------------------------------------
\* the limit of a comparison made with the count of the next failure
MaxRetriesEarly == 5 - 1
\* the limit of a comparison written > instead of >=
MaxRetriesStrict == 5 + 1
MaxRetries == 5
PollDelayMs == 2000
BackoffUnitMs == 1000
InitialEta == 60

Null == "<null>"
NoJob == "<undefined>"
Jobs == {"abc123"}

\* location.state after a navigation that passes none
NoState == [jobId |-> NoJob]

\* the state handleGenerate passes to /processing; job is data.job_id
ProcessingState(job) ==
    [filename |-> "notes.pdf", questionLanguage |-> "en", explanationLanguage |-> "de",
     numberOfQuestions |-> "1000", outputFormat |-> "json", jobId |-> job]

GenericError == "An error occurred"
NotOkError == "Failed to fetch job status"
NetworkError == "NetworkError when attempting to fetch resource."
JsonError == "Unexpected token < in JSON"

VARIABLES
    route,          \* pathname of the current location
    locState,       \* location.state of the current location
    inst,           \* number of the Processing instance mounted last
    reruns,         \* re-runs of the mount effect so far
    starts,         \* calls of pollStatus by the effect or the Retry button so far
    currentStep, progress, estimatedTime, logs, error,   \* React state
    retryCount,     \* localStorage item 'retryCount': decimal digits, <<>> when absent
    tasks,          \* bag of the pending pollStatus invocations and continuations
    fetches,        \* number of fetches issued so far
    cancelled,      \* the instance mounted last was left through handleCancel
    \* React state of the Dashboard view
    selectedFile, questionLanguage, explanationLanguage, numberOfQuestions,
    outputFormat, isGenerating,
    uploads,        \* bag of the upload requests in flight
    \* React state of AuthProvider; user is <<>> for null, or <<u>>
    isAuthenticated, user,
    \* localStorage items 'isAuthenticated' and 'username', Null when absent
    storedIsAuthenticated, storedUsername,
    loginReturned   \* what the last call of login returned: <<>> before any call

\* the state of the Dashboard view and of the uploads it issued
dashboard == <<selectedFile, questionLanguage, explanationLanguage, numberOfQuestions,
               outputFormat, isGenerating, uploads>>

\* the state of AuthProvider and the items it stores
auth == <<isAuthenticated, user, storedIsAuthenticated, storedUsername, loginReturned>>

\* the state the Processing view and its poller neither read nor write
app == <<dashboard, auth>>

\* the state the Dashboard view and AuthProvider neither read nor write
poller == <<route, locState, inst, reruns, starts, currentStep, progress, estimatedTime,
            logs, error, retryCount, tasks, fetches, cancelled>>

vars == <<route, locState, inst, reruns, starts, currentStep, progress, estimatedTime,
          logs, error, retryCount, tasks, fetches, cancelled,
          selectedFile, questionLanguage, explanationLanguage, numberOfQuestions,
          outputFormat, isGenerating, uploads,
          isAuthenticated, user, storedIsAuthenticated, storedUsername, loginReturned>>

view == <<currentStep, progress, estimatedTime, logs, error>>

\* ---- number <-> string, as localStorage stores strings --------------------
RECURSIVE toString(_)
toString(n) ==
    IF n < 10 THEN <<n>> ELSE toString(n \div 10) \o <<n % 10>>

RECURSIVE parseInt(_)
parseInt(s) ==
    IF Len(s) = 1 THEN s[1]
    ELSE 10 * parseInt(SubSeq(s, 1, Len(s) - 1)) + s[Len(s)]

\* the counter read under a key of the poller's own, which nothing has written
getOwnItemOrZero == <<0>>

\* localStorage.getItem('retryCount') || '0'
getItemOrZero == IF retryCount = <<>> THEN <<0>> ELSE retryCount

\* the RetryCounter of the specification
RetryCounter == parseInt(getItemOrZero)

RECURSIVE pow(_, _)
pow(b, e) == IF e = 0 THEN 1 ELSE b * pow(b, e - 1)

\* ---- the five displayed stages ---------------------------------------------
\* every stage compared with its own index
stepsByIndex(cs) ==
    << IF cs >= 1 THEN "completed" ELSE IF cs = 0 THEN "in-progress" ELSE "pending",
       IF cs >= 2 THEN "completed" ELSE IF cs = 1 THEN "in-progress" ELSE "pending",
       IF cs >= 3 THEN "completed" ELSE IF cs = 2 THEN "in-progress" ELSE "pending",
       IF cs >= 4 THEN "completed" ELSE IF cs = 3 THEN "in-progress" ELSE "pending",
       IF cs >= 5 THEN "completed" ELSE IF cs = 4 THEN "in-progress" ELSE "pending" >>

steps(cs) ==
    << "completed",
       IF cs >= 1 THEN "completed" ELSE IF cs = 0 THEN "in-progress" ELSE "pending",
       IF cs >= 2 THEN "completed" ELSE IF cs = 1 THEN "in-progress" ELSE "pending",
       IF cs >= 3 THEN "completed" ELSE IF cs = 2 THEN "in-progress" ELSE "pending",
       IF cs >= 4 THEN "completed" ELSE IF cs = 3 THEN "in-progress" ELSE "pending" >>

\* ---- what a fetch can resolve to ---------------------------------------------
\* a thrown fetch error, a non-success response, an unparsable body
Failures ==
    { [kind |-> "throw", message |-> NetworkError],
      [kind |-> "notok", message |-> NotOkError],
      [kind |-> "badjson", message |-> JsonError] }

\* JSON bodies; a field that is absent from the record is absent from the body
RunningSnapshots ==
    { [status |-> "pending"],
      [status |-> "in-progress", progress |-> 20, step |-> 1, eta |-> 70,
       logs |-> <<"queued", "parsing">>],
      [status |-> "in-progress", progress |-> 40, step |-> 2, eta |-> 90],
      [progress |-> 60, step |-> 3, eta |-> 30],
      [status |-> "paused", progress |-> 10, step |-> 4, eta |-> 10, logs |-> <<>>] }

CompletedSnapshots ==
    { [status |-> "completed", progress |-> 100, questions_generated |-> 12,
       topics_detected |-> 3, questions_preview |-> <<"q1", "q2">>],
      [status |-> "completed", questions |-> <<"q1", "q2", "q3">>],
      [status |-> "completed"] }

ErrorSnapshots ==
    { [status |-> "error", error |-> "disk full"],
      [status |-> "error", error |-> ""],
      [status |-> "error", progress |-> 40] }

\* the try block ends before the body is parsed
inTryFetchOnly(f) == f.kind \in {"throw", "notok"}

\* the failure arises inside the try block: from the fetch call, from the throw
\* after a non-success response, or from response.json()
inTry(f) == f.kind \in {"throw", "notok", "badjson"}

Snapshots == RunningSnapshots \cup CompletedSnapshots \cup ErrorSnapshots

has(data, f) == f \in DOMAIN data

\* data.f, -1 standing for a value that is not a number
orMissing(data, f) == IF has(data, f) THEN data[f] ELSE -1

\* data.f || 0
orZero(data, f) == IF has(data, f) THEN data[f] ELSE 0

\* data.f ?? dflt: only an absent field falls back
orStringNullish(data, f, dflt) == IF has(data, f) THEN data[f] ELSE dflt

\* data.f || dflt, for a string field
orString(data, f, dflt) == IF has(data, f) /\ data[f] # "" THEN data[f] ELSE dflt

\* data.f || [], for an array field
orEmpty(data, f) == IF has(data, f) THEN data[f] ELSE <<>>

statusOf(data) == IF has(data, "status") THEN data.status ELSE "<undefined>"

\* only 'completed' stops the polling
terminalCompletedOnly(data) == statusOf(data) = "completed"

\* the job is completed or errored: the cycle stops polling
terminal(data) == statusOf(data) = "completed" \/ statusOf(data) = "error"

\* the derived status line; an optional part is a sequence of length 0 or 1
statusLog(data) ==
    [ line |-> "status",
      status |-> orString(data, "status", "unknown"),
      progress |-> IF has(data, "progress") THEN <<data.progress>> ELSE <<>>,
      step |-> IF has(data, "step") /\ data.step # 0 THEN <<data.step>> ELSE <<>>,
      last |-> IF has(data, "logs") /\ Len(data.logs) > 0
               THEN <<data.logs[Len(data.logs)]>> ELSE <<>> ]

messageLog(m) == [line |-> "message", text |-> m]

\* the question list taken from questions when the body has it
handoffWithQuestions(st, data) ==
    [f \in DOMAIN st \cup {"questionsGenerated", "topicsDetected", "questionsPreview"} |->
        CASE f = "jobId" -> st.jobId
          [] f = "questionsGenerated" -> orZero(data, "questions_generated")
          [] f = "topicsDetected" -> orZero(data, "topics_detected")
          [] f = "questionsPreview" ->
                 IF has(data, "questions") THEN data.questions
                 ELSE orEmpty(data, "questions_preview")
          [] OTHER -> st[f]]

\* the state passed to /results: the closure's location.state spread, then the
\* job id, the two counts and the preview list of the body
handoff(st, data) ==
    [f \in DOMAIN st \cup {"questionsGenerated", "topicsDetected", "questionsPreview"} |->
        CASE f = "jobId" -> st.jobId
          [] f = "questionsGenerated" -> orZero(data, "questions_generated")
          [] f = "topicsDetected" -> orZero(data, "topics_detected")
          [] f = "questionsPreview" -> orEmpty(data, "questions_preview")
          [] OTHER -> st[f]]

\* a status line only for a body that does not report an error
appendedUnlessError(data) ==
    IF statusOf(data) = "error"
    THEN <<messageLog(orString(data, "error", GenericError))>>
    ELSE <<statusLog(data)>>

\* the lines the two setLogs calls of the try block append: the status line, and
\* for status 'error' the message
appended(data) ==
    IF statusOf(data) = "error"
    THEN <<statusLog(data), messageLog(orString(data, "error", GenericError))>>
    ELSE <<statusLog(data)>>

\* ---- tasks ------------------------------------------------------------------
\* the instance whose setters task t calls is still mounted
live(t) == route = "processing" /\ t.inst = inst

\* inst: the instance whose setters the closure holds; state: the location.state
\* the closure holds; pc: "fetch", "backoff" or "timer"; after: currentRetry of
\* the failure the wait, or the poll, follows, 0 when it follows a success or is
\* the first poll of its chain; for a wait, waited: milliseconds of timer delay
\* that have elapsed since the cycle resolved
Task(i, st, pc, after, waited) ==
    [inst |-> i, state |-> st, pc |-> pc, after |-> after, waited |-> waited]

\* the pending tasks, each once
pending == BagToSet(tasks)

\* the bag b without one copy of t, and with one more copy of t
without(b, t) == b (-) SetToBag({t})
with(b, t) == b (+) SetToBag({t})

TypeOK ==
    /\ route \in {"login", "dashboard", "processing", "results"}
    /\ inst \in 0..MaxStarts
    /\ reruns \in 0..MaxStarts
    /\ starts \in 0..MaxStarts
    /\ currentStep \in Int /\ progress \in Int /\ estimatedTime \in Int
    /\ Len(logs) <= MaxLogs + 1
    /\ cancelled \in BOOLEAN
    /\ route # "processing" =>
           view = <<0, 0, InitialEta, <<>>, Null>>
    /\ IsABag(tasks)
    /\ BagCardinality(tasks) <= MaxStarts
    /\ fetches \in 0..MaxFetches
    /\ isGenerating \in BOOLEAN
    /\ route # "dashboard" =>
           /\ selectedFile = Null /\ questionLanguage = "" /\ explanationLanguage = ""
           /\ numberOfQuestions = "1000" /\ outputFormat = "" /\ ~isGenerating
    /\ IsABag(uploads)
    /\ BagCardinality(uploads) <= MaxStarts
    /\ isAuthenticated \in BOOLEAN
    /\ Len(user) <= 1
    /\ Len(loginReturned) <= 1
    /\ route \in {"dashboard", "processing", "results"} => isAuthenticated

Init ==
    /\ route = "dashboard"
    /\ locState = NoState
    /\ inst = 0
    /\ reruns = 0
    /\ starts = 0
    /\ currentStep = 0
    /\ progress = 0
    /\ estimatedTime = InitialEta
    /\ logs = <<>>
    /\ error = Null
    /\ retryCount = <<>>
    /\ tasks = EmptyBag
    /\ fetches = 0
    /\ cancelled = FALSE
    /\ selectedFile = Null
    /\ questionLanguage = ""
    /\ explanationLanguage = ""
    /\ numberOfQuestions = "1000"
    /\ outputFormat = ""
    /\ isGenerating = FALSE
    /\ uploads = EmptyBag
    /\ isAuthenticated = TRUE
    /\ user = <<[username |-> "admin"]>>
    /\ storedIsAuthenticated = "true"
    /\ storedUsername = "admin"
    /\ loginReturned = <<>>

\* React state lives from mount to unmount: while no instance is mounted the
\* variables hold the initial values
discardView ==
    /\ currentStep' = 0
    /\ progress' = 0
    /\ estimatedTime' = InitialEta
    /\ logs' = <<>>
    /\ error' = Null

\* only a location without any state is turned away
noState(st) == st = NoState

\* !state?.jobId
noJobId(st) == st.jobId = NoJob

\* ---- pollStatus ----------------------------------------------------------------
\* The synchronous head of pollStatus, called with the closure (i, st) while the
\* location is (r, ls) and the other tasks are rest: without a job id it navigates
\* to the dashboard, otherwise it issues the fetch.  n tells which call this is:
\* currentRetry for the call by the timer of the catch clause, 0 for any other.
pollStatus(i, st, rest, r, ls, n) ==
    IF noJobId(st)
    THEN /\ route' = "dashboard"
         /\ locState' = NoState
         /\ tasks' = rest
         /\ fetches' = fetches
    ELSE /\ fetches < MaxFetches
         /\ route' = r
         /\ locState' = ls
         /\ tasks' = with(rest, Task(i, st, "fetch", n, 0))
         /\ fetches' = fetches + 1

\* Processing mounts, with fresh state, at a location with state st and its effect
\* calls pollStatus
mountProcessing(st) ==
    /\ starts < MaxStarts
    /\ starts' = starts + 1
    /\ inst' = inst + 1
    /\ discardView
    /\ cancelled' = FALSE
    /\ pollStatus(inst + 1, st, tasks, "processing", st, 0)
    /\ UNCHANGED <<reruns, retryCount>>

\* handleGenerate navigates to /processing, with the job id of the upload response
\* in the location state
EnterProcessing(job) ==
    /\ route = "dashboard"
    /\ mountProcessing(ProcessingState(job))
    /\ UNCHANGED app

\* a dependency of the effect changes while the view stays mounted: the (empty)
\* cleanup runs and the effect calls pollStatus again
EffectRerun ==
    /\ route = "processing"
    /\ starts < MaxStarts
    /\ starts' = starts + 1
    /\ reruns' = reruns + 1
    /\ pollStatus(inst, locState, tasks, route, locState, 0)
    /\ UNCHANGED app
    /\ UNCHANGED <<inst, currentStep, progress, estimatedTime, logs, error,
                   retryCount, cancelled>>

\* the try block with the progress, step and eta of the body shown before the
\* status is looked at
ResolveOkShowingFirst(t, data) ==
    /\ t \in pending
    /\ t.pc = "fetch"
    /\ live(t) => Len(logs) < MaxLogs
    /\ UNCHANGED app
    /\ UNCHANGED <<inst, reruns, starts, retryCount, fetches, cancelled>>
    /\ IF terminal(data) /\ statusOf(data) # "error"
       THEN /\ route' = "results"
            /\ locState' = handoff(t.state, data)
            /\ tasks' = without(tasks, t)
            /\ discardView
       ELSE /\ progress' = IF live(t) THEN orZero(data, "progress") ELSE progress
            /\ currentStep' = IF live(t) THEN orZero(data, "step") ELSE currentStep
            /\ estimatedTime' = IF live(t) THEN orZero(data, "eta") ELSE estimatedTime
            /\ logs' = IF live(t) THEN logs \o appended(data) ELSE logs
            /\ UNCHANGED <<route, locState>>
            /\ IF terminal(data)
               THEN /\ error' = IF live(t) THEN orString(data, "error", GenericError)
                                 ELSE error
                    /\ tasks' = without(tasks, t)
               ELSE /\ error' = error
                    /\ tasks' = with(without(tasks, t),
                                     Task(t.inst, t.state, "timer", 0, 0))

\* the try block after the fetch resolved to the parsed body data
ResolveOk(t, data) ==
    /\ t \in pending
    /\ t.pc = "fetch"
    /\ live(t) => Len(logs) < MaxLogs
    /\ UNCHANGED app
    /\ UNCHANGED <<inst, reruns, starts, retryCount, fetches, cancelled>>
    /\ IF terminal(data) /\ statusOf(data) # "error"
       THEN /\ route' = "results"
            /\ locState' = handoff(t.state, data)
            /\ tasks' = without(tasks, t)
            /\ discardView
       ELSE IF terminal(data)
       THEN /\ error' = IF live(t) THEN orString(data, "error", GenericError) ELSE error
            /\ logs' = IF live(t) THEN logs \o appended(data) ELSE logs
            /\ UNCHANGED <<route, locState, currentStep, progress, estimatedTime>>
            /\ tasks' = without(tasks, t)
       ELSE /\ progress' = IF live(t) THEN orZero(data, "progress") ELSE progress
            /\ currentStep' = IF live(t) THEN orZero(data, "step") ELSE currentStep
            /\ estimatedTime' = IF live(t) THEN orZero(data, "eta") ELSE estimatedTime
            /\ logs' = IF live(t) THEN logs \o appended(data) ELSE logs
            /\ UNCHANGED <<route, locState, error>>
            /\ tasks' = with(without(tasks, t), Task(t.inst, t.state, "timer", 0, 0))

\* the catch block after the fetch threw, answered with a non-success response or
\* delivered a body that does not parse; f.message is the message of the Error
ResolveFail(t, f) ==
    /\ t \in pending
    /\ t.pc = "fetch"
    /\ UNCHANGED app
    /\ UNCHANGED <<route, locState, inst, reruns, starts, currentStep, progress,
                   estimatedTime, fetches, cancelled>>
    /\ IF ~inTry(f)
       THEN \* the rejection is not caught: the invocation ends there
            /\ tasks' = without(tasks, t)
            /\ UNCHANGED <<error, logs, retryCount>>
       ELSE
       LET currentRetry == parseInt(getItemOrZero) + 1
       IN  IF currentRetry >= MaxRetries
           THEN /\ live(t) => Len(logs) <= MaxLogs
                /\ retryCount' = <<>>
                /\ error' = IF live(t) THEN f.message ELSE error
                /\ logs' = IF live(t) THEN Append(logs, messageLog(f.message)) ELSE logs
                /\ tasks' = without(tasks, t)
           ELSE /\ retryCount' = toString(currentRetry)
                /\ tasks' = with(without(tasks, t),
                                 Task(t.inst, t.state, "backoff", currentRetry, 0))
                /\ UNCHANGED <<error, logs>>

\* the backoff promise resolves; the 2-second timer is set
BackoffElapsed(t) ==
    /\ t \in pending
    /\ t.pc = "backoff"
    /\ tasks' = with(without(tasks, t),
                     Task(t.inst, t.state, "timer", t.after,
                          t.waited + pow(2, t.after) * BackoffUnitMs))
    /\ UNCHANGED app
    /\ UNCHANGED <<route, locState, inst, reruns, starts, currentStep, progress,
                   estimatedTime,
                   logs, error, retryCount, fetches, cancelled>>

\* the timer callback polls for the location state of the moment
TimerFiresForLocation(t) ==
    /\ t \in pending
    /\ t.pc = "timer"
    /\ pollStatus(t.inst, locState, without(tasks, t), route, locState, t.after)
    /\ UNCHANGED app
    /\ UNCHANGED <<inst, reruns, starts, currentStep, progress, estimatedTime, logs,
                   error, retryCount, cancelled>>

\* the 2-second timer fires and calls pollStatus
TimerFires(t) ==
    /\ t \in pending
    /\ t.pc = "timer"
    /\ pollStatus(t.inst, t.state, without(tasks, t), route, locState, t.after)
    /\ UNCHANGED app
    /\ UNCHANGED <<inst, reruns, starts, currentStep, progress, estimatedTime, logs,
                   error, retryCount, cancelled>>

\* the Retry button putting the view back to what it shows at mount
RetryFromScratch ==
    /\ route = "processing"
    /\ error # Null
    /\ starts < MaxStarts
    /\ starts' = starts + 1
    /\ discardView
    /\ pollStatus(inst, locState, tasks, route, locState, 0)
    /\ UNCHANGED app
    /\ UNCHANGED <<inst, reruns, retryCount, cancelled>>

\* the Retry button of the error view
Retry ==
    /\ route = "processing"
    /\ error # Null
    /\ starts < MaxStarts
    /\ starts' = starts + 1
    /\ error' = Null
    /\ logs' = <<>>
    /\ pollStatus(inst, locState, tasks, route, locState, 0)
    /\ UNCHANGED app
    /\ UNCHANGED <<inst, reruns, currentStep, progress, estimatedTime, retryCount,
                   cancelled>>

\* the button of the error view leading to the Error view
BackToErrorView ==
    /\ route = "processing"
    /\ error # Null
    /\ route' = "error"
    /\ locState' = NoState
    /\ discardView
    /\ UNCHANGED app
    /\ UNCHANGED <<inst, reruns, starts, retryCount, tasks, fetches,
                   cancelled>>

\* the Back to Dashboard button of the error view
Back ==
    /\ route = "processing"
    /\ error # Null
    /\ route' = "dashboard"
    /\ locState' = NoState
    /\ discardView
    /\ UNCHANGED app
    /\ UNCHANGED <<inst, reruns, starts, retryCount, tasks, fetches,
                   cancelled>>

\* the Cancel button of the progress view
handleCancel ==
    /\ route = "processing"
    /\ error = Null
    /\ route' = "dashboard"
    /\ locState' = NoState
    /\ discardView
    /\ cancelled' = TRUE
    /\ UNCHANGED app
    /\ UNCHANGED <<inst, reruns, starts, retryCount, tasks, fetches>>

\* the Back to Dashboard buttons of the Results view
ResultsToDashboard ==
    /\ route = "results"
    /\ route' = "dashboard"
    /\ locState' = NoState
    /\ UNCHANGED app
    /\ UNCHANGED <<inst, reruns, starts, currentStep, progress, estimatedTime, logs,
                   error, retryCount, tasks, fetches, cancelled>>

Next ==
    \/ \E job \in Jobs \cup {NoJob} : EnterProcessing(job)
    \/ EffectRerun
    \/ \E t \in pending, data \in Snapshots : ResolveOk(t, data)
    \/ \E t \in pending, f \in Failures : ResolveFail(t, f)
    \/ \E t \in pending : BackoffElapsed(t)
    \/ \E t \in pending : TimerFires(t)
    \/ Retry
    \/ Back
    \/ handleCancel
    \/ ResultsToDashboard

Spec == Init /\ [][Next]_vars

\* ---- two submissions with different job ids ------------------------------------
\* the job ids of two upload responses
TwoJobs == {"abc123", "def456"}

\* one body of each kind and one failure
JobSnapshots ==
    { [status |-> "pending"],
      [status |-> "completed", progress |-> 100, questions_generated |-> 12,
       topics_detected |-> 3, questions_preview |-> <<"q1", "q2">>],
      [status |-> "error", error |-> "disk full"] }

JobFailures == { [kind |-> "notok", message |-> NotOkError] }

NextJobs ==
    \/ \E job \in TwoJobs \cup {NoJob} : EnterProcessing(job)
    \/ EffectRerun
    \/ \E t \in pending, data \in JobSnapshots : ResolveOk(t, data)
    \/ \E t \in pending, f \in JobFailures : ResolveFail(t, f)
    \/ \E t \in pending : BackoffElapsed(t)
    \/ \E t \in pending : TimerFires(t)
    \/ Retry
    \/ Back
    \/ handleCancel
    \/ ResultsToDashboard

SpecJobs == Init /\ [][NextJobs]_vars

\* ---- one submission, polled under fair scheduling -------------------------------
\* the number of fetches the backend may answer with a status that is neither
\* 'completed' nor 'error'; every later answer is one of the two
SettledAfter == MaxFetches - MaxRetries

\* the only submission, with a job id
Submit(job) == starts = 0 /\ EnterProcessing(job)

\* the backend answers with a running status while it has not settled
ResolveRunning(t, data) == fetches <= SettledAfter /\ ResolveOk(t, data)

\* a fetch in flight completes: with a body or with a transport failure
FetchCompletes ==
    \E t \in pending :
        \/ \E data \in RunningSnapshots : ResolveRunning(t, data)
        \/ \E data \in CompletedSnapshots \cup ErrorSnapshots : ResolveOk(t, data)
        \/ \E f \in Failures : ResolveFail(t, f)

NextLive ==
    \/ \E job \in Jobs : Submit(job)
    \/ \E t \in pending, data \in RunningSnapshots : ResolveRunning(t, data)
    \/ \E t \in pending, data \in CompletedSnapshots \cup ErrorSnapshots : ResolveOk(t, data)
    \/ \E t \in pending, f \in Failures : ResolveFail(t, f)
    \/ \E t \in pending : BackoffElapsed(t)
    \/ \E t \in pending : TimerFires(t)
    \/ Back
    \/ handleCancel
    \/ ResultsToDashboard

\* a timer that is due fires, a backoff wait ends, a fetch in flight completes
FairLive ==
    /\ WF_vars(\E t \in pending : TimerFires(t))
    /\ WF_vars(\E t \in pending : BackoffElapsed(t))
    /\ WF_vars(FetchCompletes)

SpecLive == Init /\ [][NextLive]_vars /\ FairLive

\* ---- the Dashboard view and AuthProvider -----------------------------------------
\* While no Dashboard is mounted its state variables hold the initial values.
discardDashboard ==
    /\ selectedFile' = Null
    /\ questionLanguage' = ""
    /\ explanationLanguage' = ""
    /\ numberOfQuestions' = "1000"
    /\ outputFormat' = ""
    /\ isGenerating' = FALSE

\* the guard of handleGenerate lets the call through
formComplete ==
    /\ selectedFile # Null /\ questionLanguage # ""
    /\ explanationLanguage # "" /\ outputFormat # ""

isFormValid ==
    /\ selectedFile # Null /\ questionLanguage # ""
    /\ explanationLanguage # "" /\ outputFormat # ""

\* the Generate button disabled for an incomplete form only
disabledByFormOnly == ~isFormValid

\* the disabled attribute of the Generate button
disabled == ~isFormValid \/ isGenerating

\* the form values the closure of handleGenerate holds
formState ==
    [filename |-> selectedFile, questionLanguage |-> questionLanguage,
     explanationLanguage |-> explanationLanguage,
     numberOfQuestions |-> numberOfQuestions, outputFormat |-> outputFormat]

\* an upload in flight: the form values of its closure, and whether the Dashboard
\* that issued it has been unmounted since
Upload(st, stale) == [state |-> st, stale |-> stale]

\* the uploads of bag b after the Dashboard that issued them was unmounted
unmounted(b) == BagOfAll(LAMBDA u : Upload(u.state, TRUE), b)

\* what an upload resolves to: a failure as for a poll, or a success response
\* with a JSON body, with or without job_id
UploadResponses ==
    Failures \cup {[kind |-> "ok", job_id |-> "abc123"], [kind |-> "ok"]}

\* a non-success response is read like a success
uploadThrowsUnlessNotOk(r) == r.kind \in {"throw", "badjson"}

\* the try block of handleGenerate throws: fetch rejects, the response is not a
\* success, or the body does not parse
uploadThrows(r) == r.kind \in {"throw", "notok", "badjson"}

\* data.job_id of the parsed body; the body of a non-success response has none
jobIdOf(r) == IF has(r, "job_id") THEN r.job_id ELSE NoJob

\* the state handleGenerate passes to /processing
withJobId(st, job) ==
    [f \in DOMAIN st \cup {"jobId"} |-> IF f = "jobId" THEN job ELSE st[f]]

\* the view a protected route shows
ProtectedRoute(r) == IF isAuthenticated THEN r ELSE "login"

\* the route "/" redirects to
home(authenticated) == IF authenticated THEN "dashboard" ELSE "login"

handleFileSelect(file) ==
    /\ route = "dashboard"
    /\ selectedFile = Null
    /\ selectedFile' = file
    /\ UNCHANGED <<questionLanguage, explanationLanguage, numberOfQuestions,
                   outputFormat, isGenerating, uploads>>
    /\ UNCHANGED <<auth, poller>>

handleRemoveFile ==
    /\ route = "dashboard"
    /\ selectedFile # Null
    /\ selectedFile' = Null
    /\ UNCHANGED <<questionLanguage, explanationLanguage, numberOfQuestions,
                   outputFormat, isGenerating, uploads>>
    /\ UNCHANGED <<auth, poller>>

setQuestionLanguage(l) ==
    /\ route = "dashboard"
    /\ questionLanguage # l
    /\ questionLanguage' = l
    /\ UNCHANGED <<selectedFile, explanationLanguage, numberOfQuestions,
                   outputFormat, isGenerating, uploads>>
    /\ UNCHANGED <<auth, poller>>

setExplanationLanguage(l) ==
    /\ route = "dashboard"
    /\ explanationLanguage # l
    /\ explanationLanguage' = l
    /\ UNCHANGED <<selectedFile, questionLanguage, numberOfQuestions,
                   outputFormat, isGenerating, uploads>>
    /\ UNCHANGED <<auth, poller>>

setNumberOfQuestions(v) ==
    /\ route = "dashboard"
    /\ numberOfQuestions # v
    /\ numberOfQuestions' = v
    /\ UNCHANGED <<selectedFile, questionLanguage, explanationLanguage,
                   outputFormat, isGenerating, uploads>>
    /\ UNCHANGED <<auth, poller>>

setOutputFormat(v) ==
    /\ route = "dashboard"
    /\ outputFormat # v
    /\ outputFormat' = v
    /\ UNCHANGED <<selectedFile, questionLanguage, explanationLanguage,
                   numberOfQuestions, isGenerating, uploads>>
    /\ UNCHANGED <<auth, poller>>

\* handleGenerate up to its first await.  A click on the button while it is
\* disabled for an incomplete form is the call the guard turns away: either way
\* nothing changes.
handleGenerate ==
    /\ route = "dashboard"
    /\ IF ~formComplete
       THEN UNCHANGED vars
       ELSE /\ ~disabled
            /\ starts + BagCardinality(uploads) < MaxStarts
            /\ isGenerating' = TRUE
            /\ uploads' = with(uploads, Upload(formState, FALSE))
            /\ UNCHANGED <<selectedFile, questionLanguage, explanationLanguage,
                           numberOfQuestions, outputFormat>>
            /\ UNCHANGED <<auth, poller>>

\* navigate('/processing', {state: st}) by an upload whose removal leaves the
\* uploads rest: the gate turns a visitor without a session away; a mounted
\* Processing view stays and runs its effect again for the new location state;
\* otherwise the view that is mounted makes way for Processing
navigateToProcessing(st, rest) ==
    IF ProtectedRoute("processing") # "processing"
    THEN /\ route' = "login"
         /\ locState' = NoState
         /\ uploads' = rest
         /\ UNCHANGED <<selectedFile, questionLanguage, explanationLanguage,
                        numberOfQuestions, outputFormat, isGenerating>>
         /\ UNCHANGED <<inst, reruns, starts, currentStep, progress, estimatedTime,
                        logs, error, retryCount, tasks, fetches, cancelled>>
    ELSE IF route = "processing"
    THEN /\ starts < MaxStarts
         /\ starts' = starts + 1
         /\ reruns' = reruns + 1
         /\ pollStatus(inst, st, tasks, "processing", st, 0)
         /\ uploads' = rest
         /\ UNCHANGED <<selectedFile, questionLanguage, explanationLanguage,
                        numberOfQuestions, outputFormat, isGenerating>>
         /\ UNCHANGED <<inst, currentStep, progress, estimatedTime, logs, error,
                        retryCount, cancelled>>
    ELSE /\ mountProcessing(st)
         /\ discardDashboard
         /\ uploads' = unmounted(rest)

\* handleGenerate from the first await on, for the upload u that resolves to r
UploadResolves(u, r) ==
    /\ u \in BagToSet(uploads)
    /\ UNCHANGED auth
    /\ IF uploadThrows(r)
       THEN \* catch: an alert; finally: setIsGenerating(false)
            /\ uploads' = without(uploads, u)
            /\ isGenerating' = IF u.stale THEN isGenerating ELSE FALSE
            /\ UNCHANGED <<selectedFile, questionLanguage, explanationLanguage,
                           numberOfQuestions, outputFormat>>
            /\ UNCHANGED poller
       ELSE navigateToProcessing(withJobId(u.state, jobIdOf(r)), without(uploads, u))

\* logout leaving the stored items in place
logoutKeepingItems ==
    /\ isAuthenticated' = FALSE
    /\ user' = <<>>
    /\ UNCHANGED <<storedIsAuthenticated, storedUsername>>

logout ==
    /\ isAuthenticated' = FALSE
    /\ user' = <<>>
    /\ storedIsAuthenticated' = Null
    /\ storedUsername' = Null

\* the Logout button of the navigation bar, which every view but Login shows
handleLogout ==
    /\ route \in {"dashboard", "processing", "results"}
    /\ logout
    /\ route' = "login"
    /\ locState' = NoState
    /\ discardView
    /\ discardDashboard
    /\ uploads' = unmounted(uploads)
    /\ UNCHANGED <<inst, reruns, starts, retryCount, tasks, fetches, cancelled,
                   loginReturned>>

\* login checking the username alone
loginByUsername(username, password) ==
    /\ IF username = "admin"
       THEN /\ isAuthenticated' = TRUE
            /\ user' = <<[username |-> username]>>
            /\ storedIsAuthenticated' = "true"
            /\ storedUsername' = username
            /\ loginReturned' = <<TRUE>>
       ELSE /\ loginReturned' = <<FALSE>>
            /\ UNCHANGED <<isAuthenticated, user, storedIsAuthenticated,
                           storedUsername>>
    /\ UNCHANGED <<dashboard, poller>>

\* AuthProvider.login, for whichever view calls it
login(username, password) ==
    /\ IF username = "admin" /\ password = "password"
       THEN /\ isAuthenticated' = TRUE
            /\ user' = <<[username |-> username]>>
            /\ storedIsAuthenticated' = "true"
            /\ storedUsername' = username
            /\ loginReturned' = <<TRUE>>
       ELSE /\ loginReturned' = <<FALSE>>
            /\ UNCHANGED <<isAuthenticated, user, storedIsAuthenticated,
                           storedUsername>>
    /\ UNCHANGED <<dashboard, poller>>

\* the document is loaded at "/": requests in flight and timers are gone, the
\* React state is built anew, AuthProvider from the stored items, and the route
\* redirects to the Dashboard or to Login
Load ==
    /\ isAuthenticated' = (storedIsAuthenticated = "true")
    /\ user' = IF storedIsAuthenticated = "true"
               THEN <<[username |-> IF storedUsername = Null THEN "admin"
                                    ELSE storedUsername]>>
               ELSE <<>>
    /\ route' = home(storedIsAuthenticated = "true")
    /\ locState' = NoState
    /\ discardView
    /\ discardDashboard
    /\ tasks' = EmptyBag
    /\ uploads' = EmptyBag
    /\ loginReturned' = <<>>
    /\ UNCHANGED <<inst, reruns, starts, retryCount, fetches, cancelled,
                   storedIsAuthenticated, storedUsername>>

Files == {"notes.pdf"}
Usernames == {"admin", "guest", ""}
Passwords == {"password", "admin", ""}

NextApp ==
    \/ \E file \in Files : handleFileSelect(file)
    \/ handleRemoveFile
    \/ setQuestionLanguage("en")
    \/ setExplanationLanguage("de")
    \/ \E v \in {"", "1000"} : setNumberOfQuestions(v)
    \/ setOutputFormat("json")
    \/ handleGenerate
    \/ \E u \in BagToSet(uploads), r \in UploadResponses : UploadResolves(u, r)
    \/ handleCancel
    \/ handleLogout
    \/ \E username \in Usernames, password \in Passwords : login(username, password)
    \/ Load

SpecApp == Init /\ [][NextApp]_vars

\* ---- shorthands of the claims -----------------------------------------------------
\* the chain of task t has nothing pending after the step
chainEnded(t) == tasks' = without(tasks, t)

\* the chain of task t goes on, in a backoff wait, after the step
chainBacksOff(t) ==
    \E n \in 1..4 :
        tasks' = with(without(tasks, t), Task(t.inst, t.state, "backoff", n, 0))

\* task t is a fetch in flight and the step takes it from the pending tasks: the
\* step is the resolution of the fetch of t
resolved(t) == t.pc = "fetch" /\ CopiesIn(t, tasks') < CopiesIn(t, tasks)

\* the first Processing instance, whose mount effect ran once: a single chain
firstSession == inst = 1 /\ reruns = 0

\* C1 (as claimed): after any poll cycle in which the fetch succeeded and the body
\* was parsed, the RetryCounter is 0, whatever it was before the cycle.  Stated
\* for the single chain of a first session.
C1_SuccessResetsRetryCounter ==
    [][\A t \in pending, data \in Snapshots :
          (firstSession /\ ResolveOk(t, data)) => RetryCounter' = 0]_vars

\* C2 (as claimed): a transport failure that is the first of its streak (the poll
\* before it succeeded, or it is the first poll), hence not the fifth, never puts
\* the poller in Failed, and the poller keeps polling.  Stated for the single
\* chain of a first session.
C2_OnlyConsecutiveFailuresFail ==
    [][\A t \in pending, f \in Failures :
          (firstSession /\ t.after = 0 /\ ResolveFail(t, f)) =>
              (error' = error /\ chainBacksOff(t))]_vars

\* C3 (as claimed): after handleCancel no task of the cancelled instance issues a
\* further fetch, whether the cancel came while a fetch was in flight, during the
\* 2-second delay or during a backoff wait.  Stated for a first session.
C3_NoFetchAfterCancel ==
    [][\A t \in pending :
          (firstSession /\ cancelled) => ~TimerFires(t)]_vars

\* C4 (as claimed): once the view of a task has been torn down, the result of its
\* poll changes no poller state and fires no navigation.  Stated for a first
\* session.
C4_NoLateResultApplied ==
    [][\A t \in pending : (firstSession /\ ~live(t)) =>
          /\ \A data \in Snapshots :
                ResolveOk(t, data) =>
                    (view' = view /\ route' = route /\ locState' = locState)
          /\ \A f \in Failures :
                ResolveFail(t, f) =>
                    (view' = view /\ route' = route /\ locState' = locState)]_vars

\* C5: the RetryCounter moves only by transport failures, one at a time, so five
\* consecutive failures from 0 take it through 1, 2, 3, 4: each of the first four
\* leaves the error alone and goes into backoff, and the fifth puts the poller in
\* Failed with the message of the error it threw and ends the chain without
\* another fetch.
C5_FiveFailuresFail ==
    [][/\ \A t \in pending : resolved(t) => \A f \in Failures :
             ResolveFail(t, f) =>
                 IF RetryCounter = 4
                 THEN /\ live(t) => error' = f.message
                      /\ chainEnded(t)
                      /\ fetches' = fetches
                 ELSE /\ RetryCounter < 4
                      /\ RetryCounter' = RetryCounter + 1
                      /\ error' = error
                      /\ chainBacksOff(t)
       /\ retryCount' # retryCount =>
             \E t \in pending, f \in Failures : ResolveFail(t, f)]_vars

\* the first five fetches of a session that began with the counter at 0 have all
\* failed: the mounted poller is in Failed and polls no more
C5_Witness ==
    /\ route = "processing"
    /\ firstSession
    /\ starts = 1
    /\ fetches = 5
    /\ error = NotOkError
    /\ tasks = EmptyBag

\* C6 (as claimed): the fetch that follows a transport failure with RetryCounter
\* value n in 1..4 is issued exactly 2^n seconds after that failure.  Stated for
\* the single chain of a first session.
C6_BackoffDelayIsPowerOfTwo ==
    [][\A t \in pending :
          (firstSession /\ TimerFires(t) /\ t.after \in 1..4) =>
              t.waited + PollDelayMs = pow(2, t.after) * 1000]_vars

\* the stage status the specification derives from the stage index and the step
claimedStatus(i, s) ==
    IF i < s THEN "completed" ELSE IF i = s THEN "in-progress" ELSE "pending"

\* the stage status: Upload is always completed and stage i >= 1 is completed
\* when i <= s, in progress when i = s + 1 and pending when i > s + 1
shiftedStatus(i, s) ==
    IF i = 0 \/ i <= s THEN "completed"
    ELSE IF i = s + 1 THEN "in-progress" ELSE "pending"

\* C7 (as claimed): for a displayed step s in 0..4 stage i in 0..4 is completed
\* when i < s, in progress when i = s and pending when i > s.
C7_StageStatusByIndex ==
    (route = "processing" /\ currentStep \in 0..4) =>
        \A i \in 0..4 : steps(currentStep)[i + 1] = claimedStatus(i, currentStep)

\* C7 (amended): for a displayed step s in 0..4, stage 0 is completed and stage i
\* in 1..4 is completed when i <= s, in progress when i = s + 1, pending when
\* i > s + 1.
C7_StageStatusShifted ==
    (route = "processing" /\ currentStep \in 0..4) =>
        \A i \in 0..4 : steps(currentStep)[i + 1] = shiftedStatus(i, currentStep)

\* the view shows the snapshot with step 2
C7_Witness ==
    /\ route = "processing"
    /\ currentStep = 2
    /\ progress = 40
    /\ steps(currentStep) =
           <<"completed", "completed", "completed", "in-progress", "pending">>

\* C8 (as claimed): Retry clears the error, empties the transcript, resets the
\* RetryCounter to 0 and starts polling again, however Failed was reached.
\* Stated for the single chain of a first session.
C8_RetryResetsEverything ==
    [][(firstSession /\ Retry) =>
          /\ error' = Null
          /\ logs' = <<>>
          /\ RetryCounter' = 0
          /\ fetches' = fetches + 1]_vars

\* C9 (as claimed): one poller instance has at most one fetch in flight or one
\* scheduled continuation pending at any moment.
C9_CyclesNeverOverlap ==
    \A i \in 1..inst :
        BagCardinality([t \in {u \in pending : u.inst = i} |-> tasks[t]]) <= 1

\* C10 (as claimed): a successful response with status 'error' puts the poller in
\* Failed with the payload's error field when it is present and "An error
\* occurred" when it is absent; no poll is scheduled and the RetryCounter is not
\* incremented.
C10_ErrorStatusFailsWithPayloadMessage ==
    [][\A t \in pending : (live(t) /\ resolved(t)) => \A data \in ErrorSnapshots :
          ResolveOk(t, data) =>
              /\ error' = IF has(data, "error") THEN data.error ELSE "An error occurred"
              /\ chainEnded(t)
              /\ fetches' = fetches
              /\ retryCount' = retryCount]_vars

\* C10 (amended): the message is the payload's error field when it is present and
\* not empty, and "An error occurred" when it is absent or empty.
C10_ErrorStatusFailsWithNonEmptyMessage ==
    [][\A t \in pending : (live(t) /\ resolved(t)) => \A data \in ErrorSnapshots :
          ResolveOk(t, data) =>
              /\ error' = IF has(data, "error") /\ data.error # ""
                          THEN data.error ELSE "An error occurred"
              /\ chainEnded(t)
              /\ fetches' = fetches
              /\ retryCount' = retryCount]_vars

\* the backend reported "disk full" and the view shows it
C10_Witness ==
    /\ route = "processing"
    /\ error = "disk full"
    /\ Len(logs) >= 2
    /\ logs[Len(logs)] = messageLog("disk full")
    /\ \A t \in pending : t.inst # inst

\* the handoff the specification describes: the question list is the body's
\* questions or questions_preview
claimedHandoff(st, data) ==
    [filename |-> st.filename, questionLanguage |-> st.questionLanguage,
     explanationLanguage |-> st.explanationLanguage,
     numberOfQuestions |-> st.numberOfQuestions, outputFormat |-> st.outputFormat,
     jobId |-> st.jobId,
     questionsGenerated |->
         IF has(data, "questions_generated") THEN data.questions_generated ELSE 0,
     topicsDetected |-> IF has(data, "topics_detected") THEN data.topics_detected ELSE 0,
     questionsPreview |->
         IF has(data, "questions") THEN data.questions
         ELSE IF has(data, "questions_preview") THEN data.questions_preview ELSE <<>>]

\* the handoff with the question list taken from questions_preview alone
previewHandoff(st, data) ==
    [claimedHandoff(st, data) EXCEPT
        !.questionsPreview =
            IF has(data, "questions_preview") THEN data.questions_preview ELSE <<>>]

\* C11 (as claimed): a successful response with status 'completed' navigates to
\* Results once, with the filename, languages, requested count, output format and
\* job id the poller was given, the two counts of the body (0 when absent) and the
\* body's question list, questions or questions_preview (empty when absent).
C11_HandoffCarriesQuestionList ==
    [][\A t \in pending : resolved(t) => \A data \in CompletedSnapshots :
          ResolveOk(t, data) =>
              /\ route' = "results"
              /\ locState' = claimedHandoff(t.state, data)
              /\ chainEnded(t)]_vars

\* C11 (amended): the question list of the handoff is the body's questions_preview
\* (empty when absent); a questions field of the body is not handed off.
C11_HandoffCarriesPreviewList ==
    [][\A t \in pending : resolved(t) => \A data \in CompletedSnapshots :
          ResolveOk(t, data) =>
              /\ route' = "results"
              /\ locState' = previewHandoff(t.state, data)
              /\ chainEnded(t)]_vars

\* the Results view has received the handoff of the job with 12 questions
C11_Witness ==
    /\ route = "results"
    /\ locState = [filename |-> "notes.pdf", questionLanguage |-> "en",
                   explanationLanguage |-> "de", numberOfQuestions |-> "1000",
                   outputFormat |-> "json", jobId |-> "abc123",
                   questionsGenerated |-> 12, topicsDetected |-> 3,
                   questionsPreview |-> <<"q1", "q2">>]
    /\ fetches >= 1

\* the bodies that end the polling
TerminalSnapshots == CompletedSnapshots \cup ErrorSnapshots

C13_NoJobIdAborts ==
    [][/\ EnterProcessing(NoJob) =>
             /\ fetches' = fetches
             /\ route' = "dashboard"
             /\ tasks' = tasks
             /\ retryCount' = retryCount
             /\ logs' = logs
             /\ error' = error
       /\ route = "processing" => locState.jobId \in Jobs
       /\ \A t \in pending : t.state.jobId \in Jobs]_vars

\* the only view mounted so far had no job id: back on the Dashboard, no fetch
\* was issued and nothing is pending
C13_Witness ==
    /\ route = "dashboard"
    /\ inst = 1
    /\ starts = 1
    /\ fetches = 0
    /\ tasks = EmptyBag
    /\ retryCount = <<>>

\* C14: a successful response whose status is neither 'completed' nor 'error'
\* makes the displayed progress, step and eta of the mounted view the values of the
\* body, 0 for a missing one and a lower progress accepted, and leaves exactly one
\* continuation of the chain, a timer that calls the next poll after 2000 ms.
C14_RunningSnapshotShownAndPolledAgain ==
    [][/\ \A t \in pending : (live(t) /\ resolved(t)) => \A data \in RunningSnapshots :
             ResolveOk(t, data) =>
                 /\ progress' = IF has(data, "progress") THEN data.progress ELSE 0
                 /\ currentStep' = IF has(data, "step") THEN data.step ELSE 0
                 /\ estimatedTime' = IF has(data, "eta") THEN data.eta ELSE 0
                 /\ error' = error
                 /\ fetches' = fetches
                 /\ tasks' = with(without(tasks, t), Task(t.inst, t.state, "timer", 0, 0))
       /\ \A t \in pending :
             (TimerFires(t) /\ t.after = 0) =>
                 (t.waited + PollDelayMs = 2000 /\ fetches' = fetches + 1)]_vars

\* the view showed 40 % and now shows the 10 % of the next snapshot, whose status
\* it does not know; the next poll is scheduled
C14_Witness ==
    /\ route = "processing"
    /\ Len(logs) = 2
    /\ logs[1].line = "status" /\ logs[1].progress = <<40>>
    /\ logs[2].line = "status" /\ logs[2].status = "paused"
    /\ progress = 10 /\ currentStep = 4 /\ estimatedTime = 10
    /\ \E t \in pending : t.inst = inst /\ t.pc = "timer" /\ t.after = 0

\* C15: the pollers share one counter: while two pollers are running, a transport
\* failure of one of them advances the counter the other one reads by one, or,
\* when it finds 4, puts the failing poller in Failed and removes the counter,
\* whichever poller had the earlier failures; the other poller goes on.
C15_PollersShareRetryCounter ==
    [][\A t \in pending : resolved(t) => \A u \in pending, f \in Failures :
          (t.inst # u.inst /\ ResolveFail(t, f)) =>
              /\ IF RetryCounter = 4
                 THEN /\ retryCount' = <<>>
                      /\ chainEnded(t)
                      /\ live(t) => error' = f.message
                 ELSE /\ RetryCounter' = RetryCounter + 1
                      /\ chainBacksOff(t)
              /\ u \in BagToSet(tasks')]_vars

\* five fetches have been issued, at least one of them by the first poller, which
\* is still running after its view was left; the second poller is in Failed with
\* a transport error after at most four fetches of its own
C15_Witness ==
    /\ route = "processing"
    /\ inst = 2 /\ starts = 2
    /\ fetches = 5
    /\ error = NetworkError
    /\ retryCount = <<>>
    /\ \E u \in pending : u.inst = 1
    /\ \A u \in pending : u.inst # 2

\* C16 (as claimed): a poller that mounts with a job id counts from 0, whatever an
\* earlier polling session that was abandoned mid-retry left in storage.
C16_MountCountsFromZero ==
    [][\A job \in Jobs : EnterProcessing(job) => RetryCounter' = 0]_vars

\* the outcomes of the cycle of task t, seen over one step
scheduledNext(t) ==
    /\ route' = route
    /\ error' = error
    /\ \E u \in BagToSet(tasks') :
           /\ u.pc \in {"timer", "backoff"} /\ u.waited = 0
           /\ u.inst = t.inst /\ u.state = t.state
           /\ tasks' = with(without(tasks, t), u)

enteredFailed(t) ==
    /\ route' = route
    /\ error' # Null
    /\ chainEnded(t)

enteredSucceeded(t) ==
    /\ route' = "results"
    /\ chainEnded(t)

outcomes(t) ==
    (IF scheduledNext(t) THEN 1 ELSE 0) + (IF enteredFailed(t) THEN 1 ELSE 0)
        + (IF enteredSucceeded(t) THEN 1 ELSE 0)

\* C17: a cycle of a mounted poller that got a response ends in exactly one of
\* next poll scheduled, Failed and Succeeded; a thrown fetch error, a non-success
\* response and an unparsable body are each counted as a transport failure and end
\* in next poll scheduled or Failed; and a cycle that starts at mount either
\* issues its fetch or, without a job id, aborts to the Dashboard.
C17_EveryCycleHasOneOutcome ==
    [][/\ \A t \in pending : (live(t) /\ resolved(t)) =>
             /\ \A data \in Snapshots : ResolveOk(t, data) => outcomes(t) = 1
             /\ \A f \in Failures :
                   ResolveFail(t, f) =>
                       /\ outcomes(t) = 1
                       /\ ~enteredSucceeded(t)
                       /\ retryCount' # retryCount
                       /\ enteredFailed(t) => error' = f.message
       /\ \A job \in Jobs \cup {NoJob} :
             EnterProcessing(job) =>
                 IF job = NoJob
                 THEN route' = "dashboard" /\ tasks' = tasks /\ fetches' = fetches
                 ELSE /\ route' = "processing" /\ fetches' = fetches + 1
                      /\ \E u \in BagToSet(tasks') :
                             u.pc = "fetch" /\ tasks' = with(tasks, u)]_vars

\* the fifth failure in a row was a body that does not parse: the poller is in
\* Failed with the message of the parse error
C17_Witness ==
    /\ route = "processing"
    /\ error = JsonError
    /\ Len(logs) >= 1
    /\ logs[Len(logs)] = messageLog(JsonError)
    /\ retryCount = <<>>
    /\ \A u \in pending : u.inst # inst

\* C18: the location changes to Results only by a successful response with status
\* 'completed', to the Dashboard only by a mount without a job id, by the Cancel
\* button, by the Back button of the Failed view or from the Results view, and to
\* Processing only by a submission; the location is never the Error view; and a
\* transport failure or an 'error' snapshot changes no location.
C18_NavigationOnlyOnOutcome ==
    [][/\ (route' # route \/ locState' # locState) =>
             \/ /\ route' = "results"
                /\ \E t \in pending, data \in CompletedSnapshots :
                       resolved(t) /\ ResolveOk(t, data)
             \/ /\ route' = "dashboard"
                /\ \/ /\ route = "dashboard"
                      /\ \E job \in Jobs \cup {NoJob} :
                             noJobId(ProcessingState(job)) /\ EnterProcessing(job)
                   \/ route = "processing" /\ error = Null /\ handleCancel
                   \/ route = "processing" /\ error # Null /\ Back
                   \/ route = "results" /\ ResultsToDashboard
             \/ /\ route' = "processing"
                /\ \E job \in Jobs : EnterProcessing(job)
       /\ route' # "error"
       /\ (route' # route \/ locState' # locState) =>
             \A t \in pending : resolved(t) =>
                 /\ \A f \in Failures : ~ResolveFail(t, f)
                 /\ \A data \in ErrorSnapshots : ~ResolveOk(t, data)]_vars

\* the fifth failure of the only session is shown in the view: the location is
\* still the Processing view of the job and nothing is pending
C18_Witness ==
    /\ route = "processing"
    /\ locState = ProcessingState("abc123")
    /\ inst = 1 /\ starts = 1
    /\ fetches = 5
    /\ error = NetworkError
    /\ tasks = EmptyBag

\* the pairs of an instance and the job id its pending tasks poll for
polledJobs(b) == {<<u.inst, u.state.jobId>> : u \in BagToSet(b)}

\* C19: the job id of the upload response reaches the poller through the location
\* state and is the id of the fetch issued at mount; every later fetch of the
\* chain, by a timer, by Retry or by a re-run of the effect, is for that same
\* id, also when a view of another job has been mounted since; no other id ever
\* appears; and the handoff to Results carries the id of the poll that completed.
C19_JobIdPassedUnchanged ==
    [][/\ \A job \in TwoJobs :
             EnterProcessing(job) =>
                 /\ locState'.jobId = job
                 /\ \E u \in BagToSet(tasks') :
                        /\ tasks' = with(tasks, u)
                        /\ u.pc = "fetch" /\ u.inst = inst' /\ u.state.jobId = job
       /\ \A t \in pending :
             TimerFires(t) =>
                 \E u \in BagToSet(tasks') :
                     /\ tasks' = with(without(tasks, t), u)
                     /\ u.pc = "fetch" /\ u.inst = t.inst
                     /\ u.state.jobId = t.state.jobId
       /\ (Retry \/ EffectRerun) =>
             /\ locState' = locState
             /\ \E u \in BagToSet(tasks') :
                    /\ tasks' = with(tasks, u)
                    /\ u.pc = "fetch" /\ u.inst = inst
                    /\ u.state.jobId = locState.jobId
       /\ \A t \in pending, data \in JobSnapshots :
             (ResolveOk(t, data) /\ statusOf(data) = "completed") =>
                 locState'.jobId = t.state.jobId
       /\ polledJobs(tasks') \subseteq polledJobs(tasks) \cup {<<inst', locState'.jobId>>}
       /\ \A t \in pending, u \in pending :
             t.inst = u.inst => t.state.jobId = u.state.jobId
       /\ \A t \in pending :
             /\ t.state.jobId \in TwoJobs
             /\ live(t) => t.state.jobId = locState.jobId]_vars

\* the view of job def456 was mounted after the view of job abc123 was left; the
\* poller of abc123 went on, saw 'completed' and handed abc123 to Results, while
\* the poller of def456 still polls for def456
C19_Witness ==
    /\ route = "results"
    /\ locState.jobId = "abc123"
    /\ inst = 2
    /\ fetches >= 3
    /\ \E u \in pending : u.inst = 2 /\ u.pc = "fetch" /\ u.state.jobId = "def456"

\* sequence p is the beginning of sequence q
isPrefix(p, q) == Len(p) <= Len(q) /\ SubSeq(q, 1, Len(p)) = p

\* the bodies that leave the view mounted
InlineSnapshots == RunningSnapshots \cup ErrorSnapshots

\* C20: while the view stays mounted, a successful poll appends one status line
\* to the transcript, followed by one line with the error message when the status
\* is 'error'; a transport failure appends nothing, except the one that enters
\* Failed, which appends the one line of its message; and every step other than
\* Retry, which empties the transcript, keeps the lines there are, in their order.
C20_TranscriptGrowsByOneLine ==
    [][/\ \A t \in pending : (live(t) /\ resolved(t)) =>
                \A data \in InlineSnapshots :
             ResolveOk(t, data) =>
                 /\ isPrefix(logs, logs')
                 /\ Len(logs') = Len(logs) + (IF statusOf(data) = "error" THEN 2 ELSE 1)
                 /\ logs'[Len(logs) + 1].line = "status"
                 /\ logs'[Len(logs) + 1].status =
                        (IF has(data, "status") THEN data.status ELSE "unknown")
                 /\ statusOf(data) = "error" =>
                        logs'[Len(logs) + 2] = [line |-> "message", text |-> error']
       /\ \A t \in pending : (live(t) /\ resolved(t)) => \A f \in Failures :
             ResolveFail(t, f) =>
                 IF RetryCounter = 4
                 THEN logs' = Append(logs, [line |-> "message", text |-> f.message])
                 ELSE logs' = logs
       /\ (route = "processing" /\ route' = "processing" /\ inst' = inst) =>
             \/ isPrefix(logs, logs')
             \/ Retry /\ logs' = <<>>]_vars

\* one successful poll and then five failures: the transcript holds the status
\* line of the poll and the message of the last failure
C20_Witness ==
    /\ route = "processing"
    /\ reruns = 0
    /\ fetches = 6
    /\ Len(logs) = 2
    /\ logs[1].line = "status"
    /\ logs[2] = messageLog(NotOkError)
    /\ error = NotOkError

\* the states of the mounted poller
Polling == route = "processing" /\ error = Null
Failed == route = "processing" /\ error # Null
Succeeded == route = "results"

\* C21: under fair scheduling of timers and fetch completions, with a backend that
\* answers with 'completed' or 'error' from some fetch on, a poller that is polling
\* eventually is in Succeeded or in Failed, unless the user leaves the view: five
\* transport failures are the most it retries.
C21_PollerEventuallyEnds ==
    Polling ~> (Succeeded \/ Failed \/ route = "dashboard")

\* a running answer to the first fetch and then five transport failures: the
\* poller is in Failed, having used every fetch there is
C21_Witness ==
    /\ Failed
    /\ progress = 20
    /\ fetches = SettledAfter + MaxRetries
    /\ error = NetworkError
    /\ tasks = EmptyBag

\* C22: after every step the stored counter reads at most 4; the failure that
\* finds it at 4 removes it, so that it reads 0, and puts a mounted poller in
\* Failed; every other failure stores the count it reached.
C22_StoredCounterAtMostFour ==
    [][/\ RetryCounter' \in 0..4
       /\ \A t \in pending : resolved(t) => \A f \in Failures :
             ResolveFail(t, f) =>
                 IF RetryCounter + 1 >= 5
                 THEN /\ retryCount' = <<>>
                      /\ RetryCounter' = 0
                      /\ live(t) => (error' # Null /\ route' = "processing")
                 ELSE retryCount' = toString(RetryCounter + 1)]_vars

\* the five fetches of the only poller failed, the last with a body that does not
\* parse: the poller is in Failed and the counter is gone from storage
C22_Witness ==
    /\ Failed
    /\ inst = 1 /\ starts = 1
    /\ fetches = 5
    /\ retryCount = <<>>
    /\ logs = <<messageLog(JsonError)>>
    /\ tasks = EmptyBag

\* C23: a transport failure that finds the counter below 4, and so does not enter
\* Failed, changes the stored counter and nothing the view shows: progress, step,
\* eta, transcript and error are what they were, and so is the location.
C23_FailureChangesOnlyCounter ==
    [][\A t \in pending : resolved(t) => \A f \in Failures :
          (RetryCounter < 4 /\ ResolveFail(t, f)) =>
              /\ progress' = progress
              /\ currentStep' = currentStep
              /\ estimatedTime' = estimatedTime
              /\ logs' = logs
              /\ error' = error
              /\ route' = route /\ locState' = locState
              /\ retryCount' # retryCount]_vars

\* the view shows the snapshot with 40 % and its one status line while the
\* poller waits after the first failure
C23_Witness ==
    /\ Polling
    /\ progress = 40 /\ currentStep = 2 /\ estimatedTime = 90
    /\ Len(logs) = 1
    /\ retryCount = <<1>>
    /\ \E t \in pending : t.inst = inst /\ t.pc = "backoff" /\ t.after = 1

\* what the view shows of a running snapshot
shown(data) == <<orZero(data, "progress"), orZero(data, "step"), orZero(data, "eta")>>

\* C24: an 'error' snapshot puts the mounted poller in Failed with the progress,
\* step and eta it showed before, whatever the snapshot carries; a 'completed'
\* snapshot leaves the view without showing anything of it; so the progress, step
\* and eta on display are always the initial 0, 0, 60 or those of a snapshot that
\* was neither.
C24_TerminalSnapshotNotShown ==
    [][/\ \A t \in pending : (live(t) /\ resolved(t)) =>
             /\ \A data \in ErrorSnapshots :
                   ResolveOk(t, data) =>
                       /\ progress' = progress
                       /\ currentStep' = currentStep
                       /\ estimatedTime' = estimatedTime
                       /\ route' = "processing" /\ error' # Null
             /\ \A data \in CompletedSnapshots :
                   ResolveOk(t, data) => route' = "results"
       /\ route' = "processing" =>
             \/ <<progress', currentStep', estimatedTime'>> = <<0, 0, InitialEta>>
             \/ \E data \in RunningSnapshots :
                    <<progress', currentStep', estimatedTime'>> = shown(data)]_vars

\* the error of a snapshot without progress is shown next to the 20 % of the
\* snapshot before it
C24_Witness ==
    /\ Failed
    /\ error = "disk full"
    /\ progress = 20 /\ currentStep = 1 /\ estimatedTime = 70
    /\ Len(logs) = 3

\* C25: Retry leaves the progress, step and eta on display as they are and the
\* view mounted; and while the view stays mounted they change only when a
\* snapshot that is neither 'completed' nor 'error' arrives for it.
C25_RetryKeepsProgress ==
    [][/\ Retry =>
             /\ progress' = progress
             /\ currentStep' = currentStep
             /\ estimatedTime' = estimatedTime
             /\ route' = "processing" /\ inst' = inst
       /\ (/\ route = "processing" /\ route' = "processing" /\ inst' = inst
           /\ <<progress', currentStep', estimatedTime'>>
                  # <<progress, currentStep, estimatedTime>>) =>
             \E t \in pending, data \in RunningSnapshots :
                 /\ live(t) /\ resolved(t) /\ ResolveOk(t, data)
                 /\ <<progress', currentStep', estimatedTime'>> = shown(data)]_vars

\* after an 'error' snapshot and Retry the view polls again with an empty
\* transcript, still showing the 40 % of the snapshot before the error
C25_Witness ==
    /\ Polling
    /\ inst = 1 /\ reruns = 0 /\ starts = 2
    /\ logs = <<>>
    /\ progress = 40 /\ currentStep = 2 /\ estimatedTime = 90
    /\ \E t \in pending : t.inst = inst /\ t.pc = "fetch"

\* C26: handleGenerate issues an upload only from a form with a file, a question
\* language, an explanation language and an output format; an upload that
\* resolves to a thrown error, to a non-success response or to a body that does
\* not parse mounts no Processing view and changes no location; and a Processing
\* view is mounted, or given a new location state, only by an upload that
\* resolved to a success response, with the form values of that upload and the
\* job id of the body.
C26_NavigationOnlyAfterSuccessfulUpload ==
    [][/\ BagCardinality(uploads') > BagCardinality(uploads) =>
             /\ selectedFile # Null
             /\ questionLanguage # ""
             /\ explanationLanguage # ""
             /\ outputFormat # ""
             /\ handleGenerate
       /\ \A u \in BagToSet(uploads), r \in UploadResponses :
             (r.kind # "ok" /\ UploadResolves(u, r)) =>
                 /\ inst' = inst /\ starts' = starts
                 /\ route' = route /\ locState' = locState
                 /\ tasks' = tasks /\ fetches' = fetches
       /\ (inst' # inst \/ starts' # starts) =>
             \E u \in BagToSet(uploads), r \in UploadResponses :
                 /\ r.kind = "ok"
                 /\ UploadResolves(u, r)
                 /\ u.state.filename # Null /\ u.state.outputFormat # ""
                 /\ IF has(r, "job_id")
                    THEN /\ route' = "processing"
                         /\ locState' =
                                [filename |-> u.state.filename,
                                 questionLanguage |-> u.state.questionLanguage,
                                 explanationLanguage |-> u.state.explanationLanguage,
                                 numberOfQuestions |-> u.state.numberOfQuestions,
                                 outputFormat |-> u.state.outputFormat,
                                 jobId |-> r.job_id]
                    ELSE route' = "dashboard"]_vars

\* the upload of a form whose number of questions was emptied succeeded: the
\* Processing view polls for the job of the response
C26_Witness ==
    /\ route = "processing"
    /\ locState = [filename |-> "notes.pdf", questionLanguage |-> "en",
                   explanationLanguage |-> "de", numberOfQuestions |-> "",
                   outputFormat |-> "json", jobId |-> "abc123"]
    /\ inst = 1
    /\ uploads = EmptyBag
    /\ \E t \in pending : t.inst = 1 /\ t.pc = "fetch" /\ t.state = locState

\* an upload of the mounted Dashboard is in flight
uploading(b) == \E u \in BagToSet(b) : ~u.stale

\* C27: while a Dashboard is mounted, isGenerating is true exactly while an upload
\* it issued is in flight: a call of handleGenerate that passes the guard finds it
\* false, sets it and issues one upload; a call the guard turns away changes
\* nothing; and whatever the upload resolves to, isGenerating is false afterwards.
C27_GeneratingWhileUploadInFlight ==
    [][/\ route' = "dashboard" => (isGenerating' <=> uploading(uploads'))
       /\ handleGenerate =>
             IF formComplete
             THEN /\ ~isGenerating /\ isGenerating'
                  /\ BagCardinality(uploads') = BagCardinality(uploads) + 1
             ELSE isGenerating' = isGenerating /\ uploads' = uploads
       /\ \A u \in BagToSet(uploads), r \in UploadResponses :
             (UploadResolves(u, r) /\ ~u.stale) =>
                 (isGenerating /\ ~isGenerating')]_vars

\* the first upload succeeded and its Processing view was cancelled; the upload
\* of the second submission is in flight
C27_Witness ==
    /\ route = "dashboard"
    /\ inst = 1 /\ cancelled
    /\ isGenerating
    /\ BagCardinality(uploads) = 1
    /\ uploading(uploads)

\* C28: isAuthenticated is true exactly when the stored 'isAuthenticated' item is
\* 'true', user is not null exactly when isAuthenticated is true, and the username
\* of user is the stored 'username' item.
C28_SessionMatchesStoredItems ==
    /\ isAuthenticated <=> (storedIsAuthenticated = "true")
    /\ (user # <<>>) <=> isAuthenticated
    /\ isAuthenticated => user[1].username = storedUsername

\* logged out and logged in again, the Login view still shown
C28_Witness ==
    /\ route = "login"
    /\ isAuthenticated
    /\ user = <<[username |-> "admin"]>>
    /\ storedUsername = "admin"
    /\ loginReturned = <<TRUE>>

\* C29: login returns true for 'admin' with 'password' and false for every other
\* pair, and a call that returns false leaves isAuthenticated, user and the two
\* stored items as they were.
C29_LoginOnlyForAdminPassword ==
    [][\A username \in Usernames, password \in Passwords :
          login(username, password) =>
              IF username = "admin" /\ password = "password"
              THEN loginReturned' = <<TRUE>> /\ isAuthenticated'
              ELSE /\ loginReturned' = <<FALSE>>
                   /\ isAuthenticated' = isAuthenticated
                   /\ user' = user
                   /\ storedIsAuthenticated' = storedIsAuthenticated
                   /\ storedUsername' = storedUsername]_vars

\* a login attempt on the Dashboard of a session has failed: the session is
\* still there
C29_Witness ==
    /\ route = "dashboard"
    /\ loginReturned = <<FALSE>>
    /\ isAuthenticated
    /\ user = <<[username |-> "admin"]>>
    /\ storedIsAuthenticated = "true"

====
